---- MODULE Spec2Model ----
(***************************************************************************)
(* SecurityScheme (openapi_schema_pydantic/v3/v3_1_0/security_scheme.py):  *)
(* a pydantic (v1) BaseModel.  The model covers what the class declaration *)
(* makes the framework do: building a record from an input mapping         *)
(* (validate_model), and writing the record back as a wire mapping         *)
(* (dict(by_alias=True, exclude_none=True)).                               *)
(*                                                                         *)
(* A text is a sequence of tokens (pieces of a string); the empty sequence *)
(* is the empty string.  A value of an input or output mapping is a record *)
(* [kind, s, n, m]: kind says which of s (a text), n (a number, or the     *)
(* length of a list) and m (the pairs of a nested mapping) is meant.       *)
(***************************************************************************)
EXTENDS Integers, Sequences, FiniteSets, TLC

\* Numbers 0..MaxInt are offered as scalar inputs.
MaxInt == 1

----------------------------------------------------------------------------
(* Values *)

V(kind, s, n, m) == [kind |-> kind, s |-> s, n |-> n, m |-> m]

\* The key is not in the mapping.
Absent == V("absent", <<>>, 0, {})
\* Python None / JSON null.
None == V("none", <<>>, 0, {})
Str(t) == V("str", t, 0, {})
Num(n) == V("int", <<>>, n, {})
\* A nested mapping, as its set of <<key, token>> pairs.
Map(m) == V("map", <<>>, 0, m)
\* A list of n numbers.
List(n) == V("list", <<>>, n, {})
\* What validation stores: an AnyUrl, and a nested OAuthFlows record.
Url(t) == V("url", t, 0, {})
Model(m) == V("model", <<>>, 0, m)

----------------------------------------------------------------------------
(* Text *)

Digit == <<"0", "1", "2", "3", "4", "5", "6", "7", "8", "9">>

RECURSIVE IntToText(_)
\* str(n) for n >= 0.
IntToText(n) ==
    IF n < 10 THEN <<Digit[n + 1]>>
    ELSE IntToText(n \div 10) \o <<Digit[(n % 10) + 1]>>

WhiteTok == {" "}
SchemeTok == {"https://"}
HostTok == {"example.com"}
PathTok == {"/openIdConnect"}

RECURSIVE LStrip(_)
LStrip(t) == IF t # <<>> /\ Head(t) \in WhiteTok THEN LStrip(Tail(t)) ELSE t

RECURSIVE RStrip(_)
RStrip(t) ==
    IF t # <<>> /\ t[Len(t)] \in WhiteTok THEN RStrip(SubSeq(t, 1, Len(t) - 1)) ELSE t

\* str.strip()
Strip(t) == RStrip(LStrip(t))

----------------------------------------------------------------------------
(* The declaration of the class *)

\* The fields, in the order of their declaration.
Fields ==
    <<"type", "description", "name", "security_scheme_in", "scheme",
      "bearerFormat", "flows", "openIdConnectUrl">>

FieldSet == {Fields[i] : i \in 1..Len(Fields)}

\* The field is written under its own name: the alias is lost.
alias_name(f) == f

\* Field(alias="in"): the key a field is read from and written under.
alias(f) == IF f = "security_scheme_in" THEN "in" ELSE f

\* The keys an input mapping may carry: the wire names and the field names.
\* (DefaultConfig is not part of the source, so keys that name no field are
\* not offered.)
Keys == FieldSet \cup {"in"}

\* Population by field name is switched off.
allow_population_off == FALSE

\* Config.allow_population_by_field_name
allow_population_by_field_name == TRUE

\* No field is required.
Required_none(f) == FALSE

\* The companion field of apiKey is required as well.
Required_name(f) == f \in {"type", "name"}

\* `= ...`: the field has no default.
Required(f) == f = "type"

\* Optional[...]: None is a value of the field.
AllowNone(f) == f # "type"

\* An optional field that is not given holds the empty string.
FieldDefault_empty(f) == Str(<<>>)

\* An optional field that is not given holds None.
FieldDefault(f) == None

\* openIdConnectUrl is a strict URL.
FieldType_strict(f) ==
    CASE f = "flows" -> <<"OAuthFlows">>
      [] f = "openIdConnectUrl" -> <<"AnyUrl">>
      [] OTHER -> <<"str">>

\* flows is a text.
FieldType_text(f) ==
    CASE f = "openIdConnectUrl" -> <<"AnyUrl", "str">>
      [] OTHER -> <<"str">>

\* The annotation of a field: the types tried, in order.
FieldType(f) ==
    CASE f = "flows" -> <<"OAuthFlows">>
      [] f = "openIdConnectUrl" -> <<"AnyUrl", "str">>
      [] OTHER -> <<"str">>

\* Config.extra of DefaultConfig: keys that are no field are dropped.
DefaultConfig_extra == "ignore"

\* The fields of the nested OAuthFlows record.
OAuthFlowsFields == {"implicit", "password", "clientCredentials", "authorizationCode"}

----------------------------------------------------------------------------
(* Validators *)

Ok(v) == [ok |-> TRUE, v |-> v, errs |-> {}]
Err(E) == [ok |-> FALSE, v |-> Absent, errs |-> E]

\* pydantic's str_validator: a str is kept, a number becomes its text.
str_validator(v) ==
    CASE v.kind = "str" -> Ok(v)
      [] v.kind = "url" -> Ok(Str(v.s))
      [] v.kind = "int" -> Ok(Str(IntToText(v.n)))
      [] OTHER -> Err({"type_error.str"})

\* AnyUrl.validate: the text is stripped, and must have a scheme, a host and
\* nothing after the path.
AnyUrl_validate(v) ==
    LET r == str_validator(v) IN
    IF ~r.ok THEN r
    ELSE LET url == Strip(r.v.s) IN
         IF Len(url) < 1 THEN Err({"value_error.any_str.min_length"})
         ELSE IF Head(url) \notin SchemeTok THEN Err({"value_error.url.scheme"})
         ELSE IF Len(url) < 2 \/ url[2] \notin HostTok THEN Err({"value_error.url.host"})
         ELSE IF \E i \in 3..Len(url) : url[i] \notin PathTok
              THEN Err({"value_error.url.extra"})
         ELSE Ok(Url(url))

\* dict(value) of BaseModel.validate: a mapping is taken as it is, an empty
\* iterable gives the empty mapping, anything else is no mapping.
AsDict(v) ==
    CASE v.kind = "map" -> Ok(Map(v.m))
      [] v.kind = "model" -> Ok(Map(v.m))
      [] v.kind = "str" /\ v.s = <<>> -> Ok(Map({}))
      [] v.kind = "list" /\ v.n = 0 -> Ok(Map({}))
      [] OTHER -> Err({"type_error.dict"})

\* OAuthFlows.validate: every flow is optional; a flow that is given must be a
\* flow record ("flow"), null ("none") stands for a flow that is not there.
OAuthFlows_validate(v) ==
    LET d == AsDict(v) IN
    IF ~d.ok THEN d
    ELSE IF \E p \in d.v.m : p[1] \in OAuthFlowsFields /\ p[2] \notin {"flow", "none"}
         THEN Err({"type_error.dict"})
         ELSE Ok(Model({<<k, IF <<k, "flow">> \in d.v.m THEN "flow" ELSE "none">> :
                          k \in OAuthFlowsFields}))

TypeValidate(t, v) ==
    CASE t = "str" -> str_validator(v)
      [] t = "AnyUrl" -> AnyUrl_validate(v)
      [] t = "OAuthFlows" -> OAuthFlows_validate(v)

RECURSIVE UnionValidate(_, _)
\* A Union takes the first of its types that accepts the value; the errors of
\* all of them are reported when none does.
UnionValidate(ts, v) ==
    IF ts = <<>> THEN Err({})
    ELSE LET r == TypeValidate(Head(ts), v) IN
         IF r.ok THEN r
         ELSE LET rest == UnionValidate(Tail(ts), v) IN
              IF rest.ok THEN rest ELSE Err(r.errs \cup rest.errs)

\* ModelField.validate
FieldValidate(f, v) ==
    IF v.kind = "none"
    THEN IF AllowNone(f) THEN Ok(None) ELSE Err({"type_error.none.not_allowed"})
    ELSE UnionValidate(FieldType(f), v)

----------------------------------------------------------------------------
(* Construction *)

Present(data) == {k \in Keys : data[k].kind # "absent"}

\* The field is read under its alias; under its name only when the alias is
\* not a key of the mapping.
UsingName(f, data) ==
    /\ data[alias(f)].kind = "absent"
    /\ allow_population_by_field_name
    /\ alias(f) # f

\* The field name is read before the alias.
FieldInput_name(f, data) ==
    IF alias(f) # f /\ allow_population_by_field_name /\ data[f].kind # "absent"
    THEN data[f] ELSE data[alias(f)]

FieldInput(f, data) == IF UsingName(f, data) THEN data[f] ELSE data[alias(f)]

FieldResult(f, data) ==
    LET value == FieldInput(f, data) IN
    IF value.kind = "absent"
    THEN IF Required(f) THEN Err({"value_error.missing"}) ELSE Ok(FieldDefault(f))
    ELSE FieldValidate(f, value)

\* pydantic's validate_model: the values of the fields and the errors, each
\* error with the alias of its field.
validate_model(data) ==
    LET names_used ==
            {IF UsingName(f, data) THEN f ELSE alias(f) :
               f \in {g \in FieldSet : FieldInput(g, data).kind # "absent"}}
        extra == IF DefaultConfig_extra = "ignore" THEN {} ELSE Present(data) \ names_used
    IN  [values |->
            [f \in FieldSet |->
               IF DefaultConfig_extra = "allow" /\ f \in extra THEN data[f]
               ELSE FieldResult(f, data).v],
         errors |->
            UNION {{<<alias(f), e>> : e \in FieldResult(f, data).errs} : f \in FieldSet}
            \cup (IF DefaultConfig_extra = "forbid"
                  THEN {<<k, "value_error.extra">> : k \in extra} ELSE {})]

----------------------------------------------------------------------------
(* Serialization *)

\* The wire form of a stored value: an AnyUrl is written as its text, a nested
\* record as the mapping of its flows.
ToWire(v, exclude_none) ==
    CASE v.kind = "url" -> Str(v.s)
      [] v.kind = "model" ->
           Map(IF exclude_none THEN {p \in v.m : p[2] # "none"} ELSE v.m)
      [] OTHER -> v

\* BaseModel.dict(by_alias, exclude_none): the fields are written in the order
\* of their declaration, each under its alias or its name.
dict_(values, by_alias, exclude_none) ==
    LET key(f) == IF by_alias THEN alias(f) ELSE f
        written(k) ==
            {i \in 1..Len(Fields) :
               /\ key(Fields[i]) = k
               /\ ~(exclude_none /\ values[Fields[i]].kind = "none")}
        last(S) == CHOOSE i \in S : \A j \in S : j <= i
    IN  [k \in Keys |->
           IF written(k) = {} THEN Absent
           ELSE ToWire(values[Fields[last(written(k))]], exclude_none)]

\* The serialization the package prescribes for an OpenAPI document.
Serialize(values) == dict_(values, TRUE, TRUE)

----------------------------------------------------------------------------
(* Inputs *)

TypeEnum == {"apiKey", "http", "mutualTLS", "oauth2", "openIdConnect"}

Numbers == {Num(n) : n \in 0..MaxInt}

AbsoluteUrl == <<"https://", "example.com", "/openIdConnect">>
RelativeUrl == <<"openIdConnect">>
PaddedUrl == <<" ", "https://", "example.com">>

\* The values offered under each key.
Domain(k) ==
    CASE k = "type" ->
           {Absent, None, Str(<<"bogus">>)} \cup {Str(<<t>>) : t \in TypeEnum}
      [] k = "description" -> {Absent, Str(<<"d">>)}
      [] k = "name" -> {Absent, None, Str(<<"api_key">>), Map({})} \cup Numbers
      [] k = "in" -> {Absent, Str(<<"header">>)}
      [] k = "security_scheme_in" -> {Absent, Str(<<"cookie">>)}
      [] k = "scheme" -> {Absent, Str(<<"basic">>)}
      [] k = "bearerFormat" -> {Absent, Str(<<"JWT">>)}
      [] k = "flows" ->
           {Absent, Map({}), Map({<<"implicit", "flow">>, <<"password", "none">>}),
            Map({<<"implicit", "scalar">>}), Str(<<>>), Num(0)}
      [] k = "openIdConnectUrl" ->
           {Absent, Str(AbsoluteUrl), Str(RelativeUrl), Str(PaddedUrl), List(1)}

\* The input mappings: every choice of a value, or of no value, for every key.
Inputs ==
    {[type |-> t, description |-> d, name |-> n, in |-> i, security_scheme_in |-> si,
      scheme |-> sc, bearerFormat |-> b, flows |-> fl, openIdConnectUrl |-> u] :
       t \in Domain("type"), d \in Domain("description"), n \in Domain("name"),
       i \in Domain("in"), si \in Domain("security_scheme_in"),
       sc \in Domain("scheme"), b \in Domain("bearerFormat"),
       fl \in Domain("flows"), u \in Domain("openIdConnectUrl")}

NoMapping == [k \in Keys |-> Absent]
NoRecord == [f \in FieldSet |-> Absent]

----------------------------------------------------------------------------
(* The state machine *)

VARIABLES
    input,    \* the mapping a record is built from
    pc,       \* "start", "failed", "constructed", "serialized", "reparsed", "done"
    record,   \* the record built from input, NoRecord when there is none
    errors,   \* the errors of the failed construction
    wire,     \* the serialized record
    record2,  \* the record built from wire
    wire2     \* record2, serialized

vars == <<input, pc, record, errors, wire, record2, wire2>>

Init ==
    /\ input \in Inputs
    /\ pc = "start"
    /\ record = NoRecord
    /\ errors = {}
    /\ wire = NoMapping
    /\ record2 = NoRecord
    /\ wire2 = NoMapping

\* SecurityScheme(**input) / SecurityScheme.parse_obj(input)
Construct ==
    /\ pc = "start"
    /\ LET r == validate_model(input) IN
       IF r.errors = {}
       THEN /\ record' = r.values
            /\ errors' = {}
            /\ pc' = "constructed"
       ELSE /\ record' = NoRecord
            /\ errors' = r.errors
            /\ pc' = "failed"
    /\ UNCHANGED <<input, wire, record2, wire2>>

\* record.dict(by_alias=True, exclude_none=True)
SerializeRecord ==
    /\ pc = "constructed"
    /\ wire' = Serialize(record)
    /\ pc' = "serialized"
    /\ UNCHANGED <<input, record, errors, record2, wire2>>

\* SecurityScheme.parse_obj(wire)
Reparse ==
    /\ pc = "serialized"
    /\ LET r == validate_model(wire) IN
       IF r.errors = {}
       THEN /\ record2' = r.values
            /\ errors' = {}
            /\ pc' = "reparsed"
       ELSE /\ record2' = NoRecord
            /\ errors' = r.errors
            /\ pc' = "failed"
    /\ UNCHANGED <<input, record, wire, wire2>>

\* record2.dict(by_alias=True, exclude_none=True)
Reserialize ==
    /\ pc = "reparsed"
    /\ wire2' = Serialize(record2)
    /\ pc' = "done"
    /\ UNCHANGED <<input, record, errors, wire, record2>>

Next == Construct \/ SerializeRecord \/ Reparse \/ Reserialize

Spec == Init /\ [][Next]_vars

----------------------------------------------------------------------------
(* Properties *)

Built == pc \in {"constructed", "serialized", "reparsed", "done"}
Written == pc \in {"serialized", "reparsed", "done"}

\* BaseModel.__eq__: two records are equal when their dict() are; an AnyUrl
\* is a str and equals the str of the same text.
Equal(a, b) == dict_(a, FALSE, FALSE) = dict_(b, FALSE, FALSE)

\* The first example of Config.schema_extra.
ExampleHttpBasic ==
    [NoMapping EXCEPT !["type"] = Str(<<"http">>), !["scheme"] = Str(<<"basic">>)]

\* C1: a mapping without the key `type` is never built into a record: the
\* construction fails, one of its errors is "missing" at `type`, and there is
\* no record, whatever the other keys carry.
C1_MissingType ==
    (pc # "start" /\ input["type"].kind = "absent") =>
        /\ pc = "failed"
        /\ <<"type", "value_error.missing">> \in errors
        /\ record = NoRecord

\* The construction of {"scheme": "basic"} has failed.
C1_Witness ==
    /\ pc = "failed"
    /\ input = [NoMapping EXCEPT !["scheme"] = Str(<<"basic">>)]
    /\ errors = {<<"type", "value_error.missing">>}

\* C2: the serialized record never has the key `security_scheme_in`; the
\* location given at construction, under either key, is written under `in`.
C2_WireKeyIn ==
    Written =>
        /\ wire["security_scheme_in"].kind = "absent"
        /\ (input["in"].kind = "str" => wire["in"] = input["in"])
        /\ (input["in"].kind = "absent" /\ input["security_scheme_in"].kind = "str"
              => wire["in"] = input["security_scheme_in"])

\* A record populated under the field name alone has been serialized.
C2_Witness ==
    /\ pc = "serialized"
    /\ input["in"].kind = "absent"
    /\ input["security_scheme_in"] = Str(<<"cookie">>)
    /\ wire["in"] = Str(<<"cookie">>)

\* C3: the keys of the serialized record are exactly the wire names of the
\* keys that were given a value other than null at construction; no key is
\* written with null, and {"type": "http", "scheme": "basic"} is written back
\* as it was given.
C3_OnlySetFields ==
    Written =>
        /\ Present(wire) =
             {IF k = "security_scheme_in" THEN "in" ELSE k :
                k \in {g \in Present(input) : input[g].kind # "none"}}
        /\ \A k \in Keys : wire[k].kind # "none"
        /\ (input = ExampleHttpBasic => wire = ExampleHttpBasic)

\* {"type": "http", "scheme": "basic"} has been serialized.
C3_Witness == pc = "serialized" /\ input = ExampleHttpBasic /\ wire = ExampleHttpBasic

\* C4: the record built from the serialized record equals the record that was
\* serialized, building it never fails, and serializing it again gives the
\* same mapping.
C4_RoundTrip ==
    /\ (pc = "failed" => record = NoRecord)
    /\ (pc \in {"reparsed", "done"} => Equal(record2, record))
    /\ (pc = "done" => wire2 = wire)

\* A round trip is complete for a mapping whose values are not written as
\* they were given: a null name, a padded URL, a location under the field name,
\* an empty text as flows.
C4_Witness ==
    /\ pc = "done"
    /\ input["name"] = None
    /\ input["openIdConnectUrl"] = Str(PaddedUrl)
    /\ input["in"].kind = "absent"
    /\ input["security_scheme_in"].kind = "str"
    /\ input["flows"] = Str(<<>>)
    /\ wire["flows"] = Map({})
    /\ wire["openIdConnectUrl"] = Str(<<"https://", "example.com">>)

\* The mapping with the location moved from the key `in` to the key
\* `security_scheme_in`.
ByFieldName(data) ==
    [data EXCEPT !["security_scheme_in"] = data["in"], !["in"] = Absent]

\* C5: when a mapping with the location under `in` alone is built into a
\* record, the same mapping with the location under `security_scheme_in` is
\* built without error into an equal record.
C5_AliasOrName ==
    (Built /\ input["in"].kind # "absent" /\ input["security_scheme_in"].kind = "absent") =>
        LET r == validate_model(ByFieldName(input)) IN
        /\ r.errors = {}
        /\ Equal(r.values, record)
        /\ r.values["security_scheme_in"] = input["in"]

\* {"type": "apiKey", "name": "api_key", "in": "header"} has been built.
C5_Witness ==
    /\ pc = "constructed"
    /\ input = [NoMapping EXCEPT !["type"] = Str(<<"apiKey">>),
                                 !["name"] = Str(<<"api_key">>),
                                 !["in"] = Str(<<"header">>)]
    /\ record["security_scheme_in"] = Str(<<"header">>)

\* C6: a text given as openIdConnectUrl is never an error of the
\* construction; the absolute URL is stored as a URL, the relative path as a
\* text, and both are serialized as the text that was given.
C6_UrlOrText ==
    /\ (pc # "start" /\ input["openIdConnectUrl"].kind = "str") =>
          \A e \in errors : e[1] # "openIdConnectUrl"
    /\ (Built /\ input["openIdConnectUrl"] = Str(AbsoluteUrl)) =>
          record["openIdConnectUrl"] = Url(AbsoluteUrl)
    /\ (Built /\ input["openIdConnectUrl"] = Str(RelativeUrl)) =>
          record["openIdConnectUrl"] = Str(RelativeUrl)
    /\ (Written /\ input["openIdConnectUrl"] \in {Str(AbsoluteUrl), Str(RelativeUrl)}) =>
          wire["openIdConnectUrl"] = input["openIdConnectUrl"]

\* The relative path has been stored as a text and serialized.
C6_Witness ==
    /\ pc = "serialized"
    /\ input["openIdConnectUrl"] = Str(RelativeUrl)
    /\ record["openIdConnectUrl"].kind = "str"
    /\ wire["openIdConnectUrl"] = Str(RelativeUrl)

\* The value is of the shape the key asks for: a text, and a mapping of flow
\* records for flows.
WellShaped(k, v) ==
    IF k = "flows"
    THEN v.kind = "map" /\ \A p \in v.m : p[1] \in OAuthFlowsFields /\ p[2] = "flow"
    ELSE v.kind = "str"

ConditionalKeys == {"name", "in", "scheme", "bearerFormat", "flows", "openIdConnectUrl"}

\* C7: with a type of the enumeration and any of the conditional keys given
\* well-shaped values, the construction does not fail, whichever of them are
\* given.
C7_NoCrossFieldCheck ==
    ( /\ pc # "start"
      /\ input["type"].kind = "str" /\ input["type"].s \in {<<t>> : t \in TypeEnum}
      /\ Present(input) \subseteq ConditionalKeys \cup {"type"}
      /\ \A k \in Present(input) : WellShaped(k, input[k]) )
    => Built /\ errors = {}

\* An http scheme without `scheme`, with the fields of apiKey and of oauth2,
\* has been built.
C7_Witness ==
    /\ pc = "constructed"
    /\ input["type"] = Str(<<"http">>)
    /\ Present(input) = {"type", "name", "in", "flows"}
    /\ input["flows"] = Map({})

\* The value a field is built from.
Read(f) ==
    IF f = "security_scheme_in" /\ input["in"].kind = "absent"
    THEN input["security_scheme_in"] ELSE input[alias(f)]

\* The value is not of the basic kind of the field: not a text for a text
\* field, not a mapping for flows.
WrongKind(f) ==
    IF f = "flows" THEN Read(f).kind \in {"str", "int", "list"}
    ELSE Read(f).kind \in {"int", "map", "list"}

\* A value no coercion turns into the field: a mapping or a list for a text
\* field, null as well for type; a number, a text that is not empty or a list
\* that is not empty for flows.
Uncoercible(f) ==
    IF f = "flows"
    THEN \/ Read(f).kind = "int"
         \/ Read(f).kind = "str" /\ Read(f).s # <<>>
         \/ Read(f).kind = "list" /\ Read(f).n > 0
    ELSE \/ Read(f).kind \in {"map", "list"}
         \/ f = "type" /\ Read(f).kind = "none"

C9_TypeInEnum ==
    Built => record["type"].kind = "str" /\ record["type"].s \in {<<t>> : t \in TypeEnum}

\* C10: the location of a record is the value given under `in`; the value
\* given under `security_scheme_in` is taken only when `in` is not a key.
C10_AliasFirst ==
    Built =>
        record["security_scheme_in"] =
            IF input["in"].kind # "absent" THEN input["in"]
            ELSE IF input["security_scheme_in"].kind # "absent"
                 THEN input["security_scheme_in"] ELSE None

\* Both keys were given, with different values, and the record holds the one
\* of `in`.
C10_Witness ==
    /\ pc = "constructed"
    /\ input["in"] = Str(<<"header">>)
    /\ input["security_scheme_in"] = Str(<<"cookie">>)
    /\ record["security_scheme_in"] = Str(<<"header">>)

====
